---- MODULE Spec2Model ----
(***************************************************************************)
(* State machine of the NEARContractEditor React component                 *)
(* (frontend/src/components/NEARContractEditor.tsx): the component's       *)
(* useState cells, its event handlers and the continuations of its         *)
(* asynchronous calls to the build service and to the wallet provider.     *)
(*                                                                         *)
(* Text the handlers inspect character by character (code, contractName,   *)
(* template names) is a sequence of one-character strings; text that is    *)
(* only stored or tested for emptiness is a TLA+ string.  null and         *)
(* undefined are the empty sequence Null, a present object r is <<r>>.     *)
(* One state of the model is one committed render: a handler runs on the   *)
(* values of the render it was created in, and React commits the updates   *)
(* of a click or change event before the next event is delivered.          *)
(***************************************************************************)
EXTENDS Integers, Sequences, FiniteSets, TLC

VARIABLES
    code,             \* useState('')            line 37, set to defaultCode on mount
    contractName,     \* useState('hello_near')  line 38
    compiling,        \* line 39
    deploying,        \* line 40
    compileResult,    \* line 41
    deployResult,     \* line 42
    templates,        \* line 43
    selectedTemplate, \* line 44
    loading,          \* line 45
    wallet,           \* line 46
    nearConnection,   \* line 47
    templatesFetch,   \* GET /templates of fetchTemplates: "pending", "done", "failed"
    nearInit,         \* connect(config) of initializeNear: "pending", "done", "failed"
    compileRequests,  \* outstanding POST /compile requests, oldest first
    deployCalls,      \* running deployContract invocations, oldest first
    providerAccount,  \* account held by the wallet provider's key store, "" if none
    signInRequested,  \* requestSignIn was called and the redirect is under way
    cycle,            \* number of compile cycles started since the page loaded
    resultOf,         \* the request whose reply is held in compileResult
    lastOp            \* the last click or selection the page handled, and how it ended

vars == <<code, contractName, compiling, deploying, compileResult, deployResult,
          templates, selectedTemplate, loading, wallet, nearConnection,
          templatesFetch, nearInit, compileRequests, deployCalls,
          providerAccount, signInRequested, cycle, resultOf, lastOp>>

(***************************************************************************)
(* Bounds of the model.                                                    *)
(***************************************************************************)
\* compile cycles that may be started per page load
MaxCycles == 2
\* invocations of one handler that may be in flight together
MaxInFlight == 2

(***************************************************************************)
(* Values.                                                                 *)
(***************************************************************************)
Null == <<>>
Some(r) == <<r>>

\* characters String.prototype.trim strips and the class \s matches
Whitespace == {" ", "\t", "\n"}

\* String.prototype.trim
RECURSIVE TrimStart(_)
TrimStart(s) ==
    IF s = <<>> THEN <<>>
    ELSE IF Head(s) \in Whitespace THEN TrimStart(Tail(s)) ELSE s

RECURSIVE TrimEnd(_)
TrimEnd(s) ==
    IF s = <<>> THEN <<>>
    ELSE IF s[Len(s)] \in Whitespace THEN TrimEnd(SubSeq(s, 1, Len(s) - 1)) ELSE s

\* the text as it is, whitespace kept
NoTrim(s) == s

Trim(s) == TrimEnd(TrimStart(s))

\* String.prototype.toLowerCase, on the letters the model uses
LowerOf(c) ==
    CASE c = "A" -> "a"
      [] c = "B" -> "b"
      [] c = "H" -> "h"
      [] c = "N" -> "n"
      [] OTHER -> c

ToLowerCase(s) == [i \in DOMAIN s |-> LowerOf(s[i])]

\* replace(/\s/g, '_'): every whitespace character becomes a '_' of its own
ReplaceEachWhitespace(s) ==
    [i \in DOMAIN s |-> IF s[i] \in Whitespace THEN "_" ELSE s[i]]

\* String.prototype.replace(/\s+/g, '_'): scanning from the left, every
\* longest run of whitespace is consumed and replaced by one '_'
RECURSIVE ReplaceWhitespaceRuns(_)
ReplaceWhitespaceRuns(s) ==
    IF s = <<>> THEN <<>>
    ELSE IF Head(s) \in Whitespace
         THEN <<"_">> \o ReplaceWhitespaceRuns(TrimStart(s))
         ELSE <<Head(s)>> \o ReplaceWhitespaceRuns(Tail(s))

\* templateName.toLowerCase().replace(/\s+/g, '_')                 line 216
NormalizeName(templateName) == ReplaceWhitespaceRuns(ToLowerCase(templateName))

\* const defaultCode = `use near_sdk::...`                         lines 50-73
\* (the first line of the literal stands for the whole of it)
defaultCode == <<"u", "s", "e", " ", "n", "e", "a", "r", "_", "s", "d", "k">>

\* useState('hello_near')                                          line 38
InitialContractName == <<"h", "e", "l", "l", "o", "_", "n", "e", "a", "r">>

\* useState<WalletConnection>({ accountId: '', isSignedIn: false }) line 46
SignedOut == [accountId |-> "", isSignedIn |-> FALSE]

(***************************************************************************)
(* Inputs: what the user types, and what the build service, the wallet     *)
(* provider and the clock may answer.                                      *)
(***************************************************************************)
\* values the Monaco editor hands to onChange (undefined arrives as '')
CodeInputs == {<<>>, <<"f", "n">>}

\* values typed into the contract name input
NameInputs == {<<>>, <<" ", "\t">>, <<"m", "y">>}

\* GET /templates: the catalogue the build service serves
Catalogue ==
    << [name |-> <<"H", "i", " ", "\t", "N">>, description |-> "greeting",
        code |-> <<"f", "n">>],
       [name |-> <<" ", "A", " ", "B", "\n">>, description |-> "blank",
        code |-> <<" ", "\n">>] >>

TemplateResponses == {<<>>, Catalogue}

\* POST /compile: response.data of a 2xx reply
CompileResponses ==
    { [success |-> TRUE, output |-> "Finished release", errors |-> "", wasm_size |-> 1024],
      [success |-> FALSE, output |-> "", errors |-> "error: could not compile", wasm_size |-> 0] }

\* what axios rejects with, rendered by the template literal `${error}`
NetworkFaults == {"AxiosError: Network Error"}

\* error.message of what a deploy step throws; '' when the thrown value has none
DeployFaultMessages == {"", "User rejected the request"}

\* GET /download-wasm/{name}: wasmResponse.data
WasmBinaries == {"wasm-a", "wasm-b"}

\* result.transaction.hash
TransactionHashes == {"tx1"}

\* Date.now()
Timestamps == {1}

\* accounts the wallet provider can hold
Accounts == {"alice.testnet"}

(***************************************************************************)
(* Session start: the first render, with the useEffect of lines 75-79 run. *)
(***************************************************************************)
\* the useState initial values, lines 37-47, and setCode(defaultCode), line 76
Mounted ==
    /\ code = defaultCode
    /\ contractName = InitialContractName
    /\ compiling = FALSE
    /\ deploying = FALSE
    /\ compileResult = Null
    /\ deployResult = Null
    /\ templates = <<>>
    /\ selectedTemplate = <<>>
    /\ loading = TRUE
    /\ wallet = SignedOut
    /\ nearConnection = Null

Init ==
    /\ Mounted
    /\ templatesFetch = "pending"
    /\ nearInit = "pending"
    /\ compileRequests = <<>>
    /\ deployCalls = <<>>
    /\ providerAccount \in Accounts \cup {""}
    /\ signInRequested = FALSE
    /\ cycle = 0
    /\ resultOf = Null
    /\ lastOp = [op |-> "mount", outcome |-> "rendered"]

Op(name, how) == [op |-> name, outcome |-> how]

\* the sequence s without its i-th element
Without(s, i) == SubSeq(s, 1, i - 1) \o SubSeq(s, i + 1, Len(s))

\* if (loading) return <loader/>: nothing else is rendered       lines 229-238
EditorRendered == ~loading

(***************************************************************************)
(* fetchTemplates, lines 127-136: the continuation after the await.        *)
(***************************************************************************)
\* setLoading(false) as the last statement of the try block
fetchTemplatesFinallySkippedOnThrow(threw) ==
    loading' = IF threw THEN loading ELSE FALSE

\* finally { setLoading(false) }                                lines 133-135
fetchTemplatesFinally(threw) == loading' = FALSE

fetchTemplatesSettle ==
    /\ templatesFetch = "pending"
    /\ \/ \E data \in TemplateResponses :
             /\ templates' = data
             /\ templatesFetch' = "done"
             /\ fetchTemplatesFinally(FALSE)
       \/ /\ UNCHANGED templates
          /\ templatesFetch' = "failed"
          /\ fetchTemplatesFinally(TRUE)
    /\ UNCHANGED lastOp
    /\ UNCHANGED <<code, contractName, compiling, deploying, compileResult, deployResult,
                   selectedTemplate, wallet, nearConnection, nearInit, compileRequests,
                   deployCalls, providerAccount, signInRequested, cycle, resultOf>>

(***************************************************************************)
(* initializeNear, lines 81-108: the continuation after await connect().   *)
(***************************************************************************)
\* if (walletConnection.isSignedIn()) setWallet({...})          lines 99-104
WalletOfProvider ==
    IF providerAccount # ""
    THEN [accountId |-> providerAccount, isSignedIn |-> TRUE]
    ELSE wallet

\* initializeNear with the wallet read from the key store before connect()
\* is awaited, so that a failed connect() leaves it set
initializeNearSettleWalletBeforeConnect ==
    /\ nearInit = "pending"
    /\ \/ /\ nearConnection' = Some([near |-> "near", wallet |-> "walletConnection"])
          /\ wallet' = WalletOfProvider
          /\ nearInit' = "done"
       \/ /\ UNCHANGED nearConnection
          /\ wallet' = WalletOfProvider
          /\ nearInit' = "failed"
    /\ UNCHANGED <<code, contractName, compiling, deploying, compileResult, deployResult,
                   templates, selectedTemplate, loading, templatesFetch, compileRequests,
                   deployCalls, providerAccount, signInRequested, cycle, resultOf, lastOp>>

initializeNearSettle ==
    /\ nearInit = "pending"
    /\ \/ /\ nearConnection' = Some([near |-> "near", wallet |-> "walletConnection"])
          /\ wallet' = WalletOfProvider
          /\ nearInit' = "done"
       \/ /\ UNCHANGED <<nearConnection, wallet>>
          /\ nearInit' = "failed"
    /\ UNCHANGED lastOp
    /\ UNCHANGED <<code, contractName, compiling, deploying, compileResult, deployResult,
                   templates, selectedTemplate, loading, templatesFetch, compileRequests,
                   deployCalls, providerAccount, signInRequested, cycle, resultOf>>

(***************************************************************************)
(* The two text inputs.                                                    *)
(***************************************************************************)
\* onChange={(e) => setContractName(e.target.value)}                line 287
contractNameChange ==
    /\ EditorRendered
    /\ \E value \in NameInputs :
          /\ value # contractName
          /\ contractName' = value
    /\ UNCHANGED lastOp
    /\ UNCHANGED <<code, compiling, deploying, compileResult, deployResult, templates,
                   selectedTemplate, loading, wallet, nearConnection, templatesFetch,
                   nearInit, compileRequests, deployCalls, providerAccount,
                   signInRequested, cycle, resultOf>>

\* onChange={(value) => setCode(value || '')}                       line 424
codeChange ==
    /\ EditorRendered
    /\ \E value \in CodeInputs :
          /\ value # code
          /\ code' = value
    /\ UNCHANGED lastOp
    /\ UNCHANGED <<contractName, compiling, deploying, compileResult, deployResult,
                   templates, selectedTemplate, loading, wallet, nearConnection,
                   templatesFetch, nearInit, compileRequests, deployCalls,
                   providerAccount, signInRequested, cycle, resultOf>>

(***************************************************************************)
(* loadTemplate, lines 212-221, called by the select's onChange, line 297. *)
(***************************************************************************)
\* the option values of the select: '' and every template's name  lines 300-305
TemplateOptions == {<<>>} \cup {templates[i].name : i \in DOMAIN templates}

\* templates.find(t => t.name === templateName): the first match, if any
FindTemplate(templateName) ==
    LET hits == {i \in DOMAIN templates : templates[i].name = templateName}
    IN  IF hits = {} THEN Null
        ELSE Some(templates[CHOOSE i \in hits : \A j \in hits : i <= j])

loadTemplate(templateName) ==
    /\ EditorRendered
    /\ templateName \in TemplateOptions
    /\ templateName # selectedTemplate
    /\ LET template == FindTemplate(templateName)
       IN  IF template # Null
           THEN /\ code' = template[1].code
                /\ contractName' = NormalizeName(templateName)
                /\ compileResult' = Null
                /\ deployResult' = Null
                /\ resultOf' = Null
                /\ lastOp' = Op("loadTemplate", "loaded")
           ELSE /\ UNCHANGED <<code, contractName, compileResult, deployResult, resultOf>>
                /\ lastOp' = Op("loadTemplate", "not_found")
    /\ selectedTemplate' = templateName
    /\ UNCHANGED <<compiling, deploying, templates, loading, wallet, nearConnection,
                   templatesFetch, nearInit, compileRequests, deployCalls,
                   providerAccount, signInRequested, cycle>>

(***************************************************************************)
(* compileContract, lines 138-163, behind the Compile button, 310-313.     *)
(***************************************************************************)
\* the button stays enabled while a request is outstanding
CompileButtonNeverDisabled == FALSE

\* disabled={compiling}                                             line 312
CompileButtonDisabled == compiling

\* !code.trim() || !contractName.trim()                             line 139
CompileInputMissing == Trim(code) = <<>> \/ Trim(contractName) = <<>>

\* the start of a cycle without setCompileResult(null)
compileContractStartKeepsResult ==
    /\ cycle < MaxCycles
    /\ Len(compileRequests) < MaxInFlight
    /\ compiling' = TRUE
    /\ UNCHANGED <<compileResult, resultOf>>
    /\ deployResult' = Null
    /\ cycle' = cycle + 1
    /\ compileRequests' = Append(compileRequests,
                                 [code |-> code, contract_name |-> contractName,
                                  cycle |-> cycle + 1])
    /\ lastOp' = Op("compileContract", "requested")

\* the start of a cycle without setDeployResult(null)
compileContractStartKeepsDeployResult ==
    /\ cycle < MaxCycles
    /\ Len(compileRequests) < MaxInFlight
    /\ compiling' = TRUE
    /\ compileResult' = Null
    /\ UNCHANGED deployResult
    /\ resultOf' = Null
    /\ cycle' = cycle + 1
    /\ compileRequests' = Append(compileRequests,
                                 [code |-> code, contract_name |-> contractName,
                                  cycle |-> cycle + 1])
    /\ lastOp' = Op("compileContract", "requested")

\* what setCompiling(true) ... axios.post(...) leave behind      lines 144-152
compileContractStart ==
    /\ cycle < MaxCycles
    /\ Len(compileRequests) < MaxInFlight
    /\ compiling' = TRUE
    /\ compileResult' = Null
    /\ deployResult' = Null
    /\ resultOf' = Null
    /\ cycle' = cycle + 1
    /\ compileRequests' = Append(compileRequests,
                                 [code |-> code, contract_name |-> contractName,
                                  cycle |-> cycle + 1])
    /\ lastOp' = Op("compileContract", "requested")

compileContract ==
    /\ EditorRendered
    /\ IF CompileButtonDisabled
       THEN /\ lastOp' = Op("compileContract", "disabled")
            /\ UNCHANGED <<compiling, compileResult, deployResult, compileRequests,
                           cycle, resultOf>>
       ELSE IF CompileInputMissing
       THEN /\ lastOp' = Op("compileContract", "alert")
            /\ UNCHANGED <<compiling, compileResult, deployResult, compileRequests,
                           cycle, resultOf>>
       ELSE compileContractStart
    /\ UNCHANGED <<code, contractName, deploying, templates, selectedTemplate, loading,
                   wallet, nearConnection, templatesFetch, nearInit, deployCalls,
                   providerAccount, signInRequested>>

\* errors: '' in the catch block, the text of the error dropped
NetworkErrorResultWithoutText(error) ==
    [success |-> FALSE, output |-> "", errors |-> "", wasm_size |-> 0]

\* `Network error: ${error}`                                        line 158
NetworkErrorResult(error) ==
    [success |-> FALSE, output |-> "", errors |-> "Network error: " \o error,
     wasm_size |-> 0]

\* setCompiling(false) as the last statement of the try block
compileContractFinallySkippedOnThrow(threw) ==
    compiling' = IF threw THEN compiling ELSE FALSE

\* finally { setCompiling(false) }: runs whether or not the await threw
\*                                                               lines 160-162
compileContractFinally(threw) == compiling' = FALSE

\* the continuation after await axios.post                       lines 153-162
compileContractSettle ==
    /\ \E i \in DOMAIN compileRequests :
          /\ \/ \E data \in CompileResponses :
                   /\ compileResult' = Some(data)
                   /\ compileContractFinally(FALSE)
             \/ \E error \in NetworkFaults :
                   /\ compileResult' = Some(NetworkErrorResult(error))
                   /\ compileContractFinally(TRUE)
          /\ resultOf' = Some(compileRequests[i])
          /\ compileRequests' = Without(compileRequests, i)
    /\ UNCHANGED <<code, contractName, deploying, deployResult, templates,
                   selectedTemplate, loading, wallet, nearConnection, templatesFetch,
                   nearInit, deployCalls, providerAccount, signInRequested, cycle,
                   lastOp>>

(***************************************************************************)
(* deployContract, lines 165-210, behind the Deploy button, 323-336.       *)
(***************************************************************************)
\* any compile result counts, a failed one too
CompileResultPresent == compileResult # Null

\* compileResult?.success                                  lines 166, 224, 323
CompileSucceeded == compileResult # Null /\ compileResult[1].success

\* {compileResult?.success && (<> ... <button onClick={deployContract}>  line 323
DeployButtonRendered == CompileSucceeded

\* the button is disabled for a signed-out wallet only
DeployButtonDisabledSignedOutOnly == ~wallet.isSignedIn

\* disabled={deploying || !wallet.isSignedIn}                       line 335
DeployButtonDisabled == deploying \/ ~wallet.isSignedIn

\* what setDeploying(true) ... axios.get(...) leave behind       lines 176-183
deployContractStart ==
    /\ Len(deployCalls) < MaxInFlight
    /\ deploying' = TRUE
    /\ deployResult' = Null
    /\ deployCalls' = Append(deployCalls,
                             [step |-> "download", contractName |-> contractName,
                              accountId |-> wallet.accountId,
                              nearConnection |-> nearConnection,
                              wasmResponse |-> "", wasmCode |-> ""])
    /\ lastOp' = Op("deployContract", "requested")

deployContract ==
    /\ EditorRendered
    /\ DeployButtonRendered
    /\ IF DeployButtonDisabled
       THEN /\ lastOp' = Op("deployContract", "disabled")
            /\ UNCHANGED <<deploying, deployResult, deployCalls>>
       ELSE IF ~CompileSucceeded
       THEN /\ lastOp' = Op("deployContract", "alert_compile")
            /\ UNCHANGED <<deploying, deployResult, deployCalls>>
       ELSE IF ~wallet.isSignedIn
       THEN /\ lastOp' = Op("deployContract", "alert_wallet")
            /\ UNCHANGED <<deploying, deployResult, deployCalls>>
       ELSE deployContractStart
    /\ UNCHANGED <<code, contractName, compiling, compileResult, templates,
                   selectedTemplate, loading, wallet, nearConnection, templatesFetch,
                   nearInit, compileRequests, providerAccount, signInRequested, cycle,
                   resultOf>>

\* error: error.message, with no text to fall back on
DeployFailureNoFallback(message) ==
    [success |-> FALSE, transactionHash |-> "", contractId |-> Null, error |-> message]

\* error.message || 'Deployment failed'                             line 205
DeployFailure(message) ==
    [success |-> FALSE, transactionHash |-> "", contractId |-> Null,
     error |-> IF message # "" THEN message ELSE "Deployment failed"]

\* the catch and finally blocks                                  lines 201-209
deployContractCatch(i, message) ==
    /\ deployResult' = Some(DeployFailure(message))
    /\ deploying' = FALSE
    /\ deployCalls' = Without(deployCalls, i)
    /\ UNCHANGED lastOp

\* account.deployContract called with a binary kept from an earlier download
deployContractSubmitKept(call, data) ==
    [call EXCEPT !.step = "deploy", !.wasmResponse = data, !.wasmCode = "wasm-a"]

\* wasmCode = new Uint8Array(wasmResponse.data), the bytes of the reply to
\* the download, is what account.deployContract is called with
\*                                                          lines 185, 193
deployContractSubmit(call, data) ==
    [call EXCEPT !.step = "deploy", !.wasmResponse = data, !.wasmCode = data]

\* the continuation after await axios.get: either the download was rejected
\* or nearConnection.wallet.account() threw, and the catch block runs, or
\* lines 185-193 run up to the call of account.deployContract(wasmCode)
deployContractDownloaded ==
    /\ \E i \in DOMAIN deployCalls :
          /\ deployCalls[i].step = "download"
          /\ \/ \E message \in DeployFaultMessages : deployContractCatch(i, message)
             \/ \E data \in WasmBinaries :
                   IF deployCalls[i].nearConnection = Null
                   THEN deployContractCatch(i, "Cannot read properties of null")
                   ELSE /\ deployCalls' =
                              [deployCalls EXCEPT ![i] = deployContractSubmit(@, data)]
                        /\ UNCHANGED lastOp
                        /\ UNCHANGED <<deploying, deployResult>>
    /\ UNCHANGED <<code, contractName, compiling, compileResult, templates,
                   selectedTemplate, loading, wallet, nearConnection, templatesFetch,
                   nearInit, compileRequests, providerAccount, signInRequested, cycle,
                   resultOf>>

\* `${contractName}_${timestamp}.${wallet.accountId}`               line 190
ContractId(name, timestamp, accountId) ==
    [contractName |-> name, timestamp |-> timestamp, accountId |-> accountId]

\* the continuation after await account.deployContract(wasmCode), 195-209
deployContractSettle ==
    /\ \E i \in DOMAIN deployCalls :
          /\ deployCalls[i].step = "deploy"
          /\ \/ \E message \in DeployFaultMessages : deployContractCatch(i, message)
             \/ \E hash \in TransactionHashes, timestamp \in Timestamps :
                   /\ deployResult' =
                         Some([success |-> TRUE, transactionHash |-> hash,
                               contractId |-> Some(ContractId(deployCalls[i].contractName,
                                                              timestamp,
                                                              deployCalls[i].accountId)),
                               error |-> ""])
                   /\ deploying' = FALSE
                   /\ deployCalls' = Without(deployCalls, i)
                   /\ UNCHANGED lastOp
    /\ UNCHANGED <<code, contractName, compiling, compileResult, templates,
                   selectedTemplate, loading, wallet, nearConnection, templatesFetch,
                   nearInit, compileRequests, providerAccount, signInRequested, cycle,
                   resultOf>>

(***************************************************************************)
(* connectWallet, lines 110-117, and disconnectWallet, lines 119-125.      *)
(***************************************************************************)
\* {wallet.isSignedIn ? <Disconnect/> : <Connect Wallet/>}       lines 254-275
ConnectButtonRendered == ~wallet.isSignedIn
DisconnectButtonRendered == wallet.isSignedIn

\* nearConnection.wallet.requestSignIn(...) called without the test of
\* nearConnection?.wallet
HasWalletConnectionUntested == TRUE

\* nearConnection?.wallet                                      lines 111, 120
HasWalletConnection == nearConnection # Null

connectWallet ==
    /\ EditorRendered
    /\ ConnectButtonRendered
    /\ IF HasWalletConnection
       THEN /\ signInRequested' = TRUE
            /\ lastOp' = Op("connectWallet", "requestSignIn")
       ELSE /\ UNCHANGED signInRequested
            /\ lastOp' = Op("connectWallet", "no_connection")
    /\ UNCHANGED <<code, contractName, compiling, deploying, compileResult, deployResult,
                   templates, selectedTemplate, loading, wallet, nearConnection,
                   templatesFetch, nearInit, compileRequests, deployCalls,
                   providerAccount, cycle, resultOf>>

\* disconnectWallet without setWallet({accountId: '', isSignedIn: false})
disconnectWalletKeepsWallet ==
    /\ EditorRendered
    /\ DisconnectButtonRendered
    /\ IF HasWalletConnection
       THEN /\ providerAccount' = ""
            /\ deployResult' = Null
            /\ lastOp' = Op("disconnectWallet", "signed_out")
       ELSE /\ UNCHANGED <<providerAccount, deployResult>>
            /\ lastOp' = Op("disconnectWallet", "no_connection")
    /\ UNCHANGED <<code, contractName, compiling, deploying, compileResult, templates,
                   selectedTemplate, loading, wallet, nearConnection, templatesFetch,
                   nearInit, compileRequests, deployCalls, signInRequested, cycle,
                   resultOf>>

\* disconnectWallet without setDeployResult(null)
disconnectWalletKeepsDeployResult ==
    /\ EditorRendered
    /\ DisconnectButtonRendered
    /\ IF HasWalletConnection
       THEN /\ providerAccount' = ""
            /\ wallet' = SignedOut
            /\ lastOp' = Op("disconnectWallet", "signed_out")
       ELSE /\ UNCHANGED <<providerAccount, wallet>>
            /\ lastOp' = Op("disconnectWallet", "no_connection")
    /\ UNCHANGED <<code, contractName, compiling, deploying, compileResult, deployResult,
                   templates, selectedTemplate, loading, nearConnection, templatesFetch,
                   nearInit, compileRequests, deployCalls, signInRequested, cycle,
                   resultOf>>

disconnectWallet ==
    /\ EditorRendered
    /\ DisconnectButtonRendered
    /\ IF HasWalletConnection
       THEN /\ providerAccount' = ""
            /\ wallet' = SignedOut
            /\ deployResult' = Null
            /\ lastOp' = Op("disconnectWallet", "signed_out")
       ELSE /\ UNCHANGED <<providerAccount, wallet, deployResult>>
            /\ lastOp' = Op("disconnectWallet", "no_connection")
    /\ UNCHANGED <<code, contractName, compiling, deploying, compileResult, templates,
                   selectedTemplate, loading, nearConnection, templatesFetch, nearInit,
                   compileRequests, deployCalls, signInRequested, cycle, resultOf>>

\* requestSignIn leaves the page for the wallet and the wallet sends the
\* browser back: the component is mounted afresh, and the replies to the
\* old page's requests are lost                          lines 112-115, 36-79
signInReturn ==
    /\ signInRequested
    /\ signInRequested' = FALSE
    /\ \/ \E account \in Accounts : providerAccount' = account
       \/ UNCHANGED providerAccount
    /\ code' = defaultCode
    /\ contractName' = InitialContractName
    /\ compiling' = FALSE
    /\ deploying' = FALSE
    /\ compileResult' = Null
    /\ deployResult' = Null
    /\ templates' = <<>>
    /\ selectedTemplate' = <<>>
    /\ loading' = TRUE
    /\ wallet' = SignedOut
    /\ nearConnection' = Null
    /\ templatesFetch' = "pending"
    /\ nearInit' = "pending"
    /\ compileRequests' = <<>>
    /\ deployCalls' = <<>>
    /\ cycle' = 0
    /\ resultOf' = Null
    /\ lastOp' = Op("mount", "rendered")

Next ==
    \/ fetchTemplatesSettle
    \/ initializeNearSettle
    \/ contractNameChange
    \/ codeChange
    \/ \E templateName \in TemplateOptions : loadTemplate(templateName)
    \/ compileContract
    \/ compileContractSettle
    \/ deployContract
    \/ deployContractDownloaded
    \/ deployContractSettle
    \/ connectWallet
    \/ disconnectWallet
    \/ signInReturn

Spec == Init /\ [][Next]_vars

\* the reply of the build service to an outstanding compile request arrives
FairSpec == Spec /\ WF_vars(compileContractSettle)

(***************************************************************************)
(* Properties.                                                             *)
(***************************************************************************)

\* C1: every step in which deploying changes from false to true starts in a
\* state where compileResult is present with success true and the wallet is
\* signed in.
C1_DeployStartsOnlyWhenCompiledAndSignedIn ==
    [][(~deploying /\ deploying') =>
          (/\ compileResult # Null
           /\ compileResult[1].success = TRUE
           /\ wallet.isSignedIn = TRUE)]_vars

\* a deploy cycle has just been started
C1_Witness ==
    /\ lastOp = Op("deployContract", "requested")
    /\ deploying
    /\ Len(deployCalls) = 1
    /\ deployCalls[1].step = "download"

\* C2: a click on Compile while compiling is true sends nothing: at most one
\* POST /compile is outstanding at any time, compiling is true exactly while
\* one is outstanding, and a request is only ever issued by a step that turns
\* compiling from false to true.
C2_OneCompileRequestPerInFlightPeriod ==
    /\ [](/\ Len(compileRequests) <= 1
          /\ compiling <=> (Len(compileRequests) = 1))
    /\ [][(Len(compileRequests') > Len(compileRequests)) =>
             (~compiling /\ compiling' /\ Len(compileRequests') = 1)]_vars
    /\ [][(compiling /\ lastOp' # lastOp /\ lastOp'.op = "compileContract") =>
             (/\ lastOp'.outcome = "disabled"
              /\ UNCHANGED <<compileRequests, compiling, compileResult, deployResult>>)]_vars

\* Compile was clicked a second time while the first request was outstanding
C2_Witness ==
    /\ lastOp = Op("compileContract", "disabled")
    /\ compiling
    /\ Len(compileRequests) = 1

\* C3: while a deploy cycle is in flight a click on Deploy starts nothing:
\* there is never a second running cycle, no step taken while deploying is
\* true adds a cycle or replaces the contract name and account the running
\* one was started with, and the click itself changes nothing.
C3_NoSecondDeployCycle ==
    /\ [](/\ Len(deployCalls) <= 1
          /\ deploying <=> (Len(deployCalls) = 1))
    /\ [][deploying =>
             (/\ Len(deployCalls') <= Len(deployCalls)
              /\ (deployCalls' # <<>> =>
                     (/\ deployCalls'[1].contractName = deployCalls[1].contractName
                      /\ deployCalls'[1].accountId = deployCalls[1].accountId
                      /\ deployCalls'[1].step # deployCalls[1].step
                            => deployCalls[1].step = "download")))]_vars
    /\ [][(deploying /\ lastOp' # lastOp /\ lastOp'.op = "deployContract") =>
             (/\ lastOp'.outcome = "disabled"
              /\ UNCHANGED <<deployCalls, deploying, deployResult>>)]_vars

\* Deploy was clicked while a cycle was waiting for the wallet to sign
C3_Witness ==
    /\ lastOp = Op("deployContract", "disabled")
    /\ deploying
    /\ wallet.isSignedIn
    /\ Len(deployCalls) = 1
    /\ deployCalls[1].step = "deploy"

\* C4: a compile result on display belongs to the input on display: whenever
\* compileResult is present it is the reply to a request that carried the
\* current code and the current contractName.
C4_ResultBelongsToCurrentInput ==
    compileResult # Null =>
        (/\ resultOf # Null
         /\ resultOf[1].code = code
         /\ resultOf[1].contract_name = contractName)

\* empty, or made of whitespace only
C5_Blank(s) == \A i \in DOMAIN s : s[i] \in Whitespace

\* C5: a click on Compile with a blank contractName or a blank code raises
\* the alert and changes neither compiling nor compileResult nor deployResult,
\* and no request with a blank code or name is ever outstanding.
C5_BlankInputIsRejectedLocally ==
    /\ [](\A i \in DOMAIN compileRequests :
             /\ ~C5_Blank(compileRequests[i].code)
             /\ ~C5_Blank(compileRequests[i].contract_name))
    /\ [][(/\ compileContract
           /\ ~compiling
           /\ C5_Blank(code) \/ C5_Blank(contractName)) =>
             (/\ lastOp' = Op("compileContract", "alert")
              /\ UNCHANGED <<compiling, compileResult, deployResult, compileRequests>>)]_vars

\* Compile was clicked with a whitespace-only name, after an earlier success
C5_Witness ==
    /\ lastOp = Op("compileContract", "alert")
    /\ contractName = <<" ", "\t">>
    /\ ~C5_Blank(code)
    /\ compileRequests = <<>>
    /\ ~compiling
    /\ compileResult # Null
    /\ compileResult[1].success

\* C6: a step that completes a compile request leaves compiling false, and
\* with the build service's reply treated fairly compiling does not stay true.
C6_CompilingIsReset ==
    /\ [][(Len(compileRequests') < Len(compileRequests)) => compiling' = FALSE]_vars
    /\ compiling ~> ~compiling

\* a cycle has ended in the catch block
C6_Witness ==
    /\ ~compiling
    /\ compileRequests = <<>>
    /\ compileResult # Null
    /\ \E error \in NetworkFaults : compileResult[1] = NetworkErrorResult(error)
    /\ cycle >= 1

\* C7: compileResult is empty while a compile request is outstanding, and a
\* present compileResult is the reply to the most recently started cycle.
C7_ResultIsOfLatestCompletedCycle ==
    /\ compileRequests # <<>> => compileResult = Null
    /\ compileResult # Null => (resultOf # Null /\ resultOf[1].cycle = cycle)

\* the result of a second cycle is on display
C7_Witness ==
    /\ compileResult # Null
    /\ resultOf # Null
    /\ resultOf[1].cycle = 2
    /\ cycle = 2
    /\ compileRequests = <<>>

\* C8: a step that ends a deploy cycle without a successful result leaves a
\* deployResult with success false and a non-empty error, and deploying false.
C8_FailedDeployIsReported ==
    [][(/\ Len(deployCalls') < Len(deployCalls)
        /\ ~(~loading /\ loading')
        /\ ~(deployResult' # Null /\ deployResult'[1].success)) =>
          (/\ deployResult' # Null
           /\ deployResult'[1].success = FALSE
           /\ deployResult'[1].error # ""
           /\ deploying' = FALSE)]_vars

\* a cycle failed with an error that carried no message
C8_Witness ==
    /\ deployResult # Null
    /\ ~deployResult[1].success
    /\ deployResult[1].error = "Deployment failed"
    /\ ~deploying
    /\ deployCalls = <<>>

\* the lower-case form of a letter, stated as a table
C9_Lower(c) ==
    LET upper == <<"A", "B", "H", "N">>
        lower == <<"a", "b", "h", "n">>
    IN  IF \E k \in 1..4 : upper[k] = c
        THEN lower[CHOOSE k \in 1..4 : upper[k] = c]
        ELSE c

\* what the i-th character of a name contributes to the normalized name: its
\* lower-case form, or one '_' where a run of whitespace begins
C9_Piece(s, i) ==
    IF s[i] \notin Whitespace THEN <<C9_Lower(s[i])>>
    ELSE IF i > 1 /\ s[i - 1] \in Whitespace THEN <<>>
    ELSE <<"_">>

RECURSIVE C9_Join(_, _)
C9_Join(s, i) == IF i > Len(s) THEN <<>> ELSE C9_Piece(s, i) \o C9_Join(s, i + 1)

\* C9: selecting a template of the catalogue sets code to the template's code,
\* contractName to the template's name in lower case with every run of
\* whitespace replaced by one underscore, and empties both results.
C9_LoadTemplateSetsInputAndClearsResults ==
    [][\A i \in DOMAIN templates :
          loadTemplate(templates[i].name) =>
             (/\ code' = templates[i].code
              /\ contractName' = C9_Join(templates[i].name, 1)
              /\ compileResult' = Null
              /\ deployResult' = Null)]_vars

\* the first template of the catalogue has just been loaded
C9_Witness ==
    /\ lastOp = Op("loadTemplate", "loaded")
    /\ selectedTemplate = <<"H", "i", " ", "\t", "N">>
    /\ contractName = <<"h", "i", "_", "n">>
    /\ code = <<"f", "n">>
    /\ compileResult = Null
    /\ deployResult = Null
    /\ cycle >= 1

\* C10: a click on Disconnect signs the wallet out and empties deployResult,
\* and leaves compileResult, code, contractName and compiling as they were.
C10_DisconnectClearsDeployResultOnly ==
    [][disconnectWallet =>
          (/\ wallet' = SignedOut
           /\ deployResult' = Null
           /\ UNCHANGED <<compileResult, code, contractName, compiling>>)]_vars

\* the wallet was disconnected while a successful compile result was shown
C10_Witness ==
    /\ lastOp = Op("disconnectWallet", "signed_out")
    /\ wallet = SignedOut
    /\ providerAccount = ""
    /\ deployResult = Null
    /\ compileResult # Null
    /\ compileResult[1].success

\* C11: while the wallet provider holds no session (the wallet was
\* disconnected, or never signed in), a click on Deploy is refused on the
\* page: no download or wallet call is issued, deploying and deployResult
\* stay as they were, and no step starts a deploy cycle.
C11_NoDeployWhileSignedOut ==
    [][providerAccount = "" =>
          (/\ Len(deployCalls') <= Len(deployCalls)
           /\ deployContract =>
                 (/\ lastOp'.outcome \in {"disabled", "alert_wallet"}
                  /\ UNCHANGED <<deployCalls, deploying, deployResult>>))]_vars

\* after a successful compile, with the wallet signed out at the provider
\* and nothing of a deploy on the page, Deploy was clicked and refused
C11_Witness ==
    /\ lastOp = Op("deployContract", "disabled")
    /\ compileResult # Null
    /\ compileResult[1].success
    /\ nearConnection # Null
    /\ nearInit = "done"
    /\ wallet = SignedOut
    /\ providerAccount = ""
    /\ deployCalls = <<>>
    /\ ~deploying
    /\ deployResult = Null

\* C12: every step that ends a compile cycle leaves a compileResult; when
\* it is not a reply of the build service (the request failed at the
\* network level) it has success false and non-empty errors.
C12_FailedRequestLeavesFailureResult ==
    [][(/\ Len(compileRequests') < Len(compileRequests)
        /\ ~(~loading /\ loading')) =>
          (/\ compileResult' # Null
           /\ compileResult'[1] \notin CompileResponses =>
                 (/\ compileResult'[1].success = FALSE
                  /\ compileResult'[1].errors # ""))]_vars

\* the only request of the session failed at the network level
C12_Witness ==
    /\ cycle = 1
    /\ compileRequests = <<>>
    /\ compileResult # Null
    /\ compileResult[1] \notin CompileResponses
    /\ compileResult[1].success = FALSE
    /\ compileResult[1].errors = "Network error: AxiosError: Network Error"
    /\ resultOf # Null
    /\ resultOf[1].cycle = 1

\* C13: a compile request is issued only by a click on Compile made while
\* compiling is false; the step issues exactly one request, for the code
\* and contract name on the page, sets compiling, and empties compileResult
\* and deployResult. No other step issues a request: none is sent again
\* after a cycle has ended.
C13_StartClearsResultsAndSendsOneRequest ==
    [][(/\ compileRequests' # compileRequests
        /\ Len(compileRequests') >= Len(compileRequests)) =>
          (/\ ~compiling
           /\ compiling'
           /\ compileResult' = Null
           /\ deployResult' = Null
           /\ compileRequests' =
                 Append(compileRequests,
                        [code |-> code, contract_name |-> contractName,
                         cycle |-> cycle + 1])
           /\ cycle' = cycle + 1
           /\ lastOp' = Op("compileContract", "requested"))]_vars

\* the second cycle of the session has started after the first one ended:
\* its request is the only one outstanding
C13_Witness ==
    /\ lastOp = Op("compileContract", "requested")
    /\ cycle = 2
    /\ compiling
    /\ Len(compileRequests) = 1
    /\ compileRequests[1].cycle = 2
    /\ compileRequests[1].code = code
    /\ compileResult = Null
    /\ deployResult = Null

\* C14: while there is no successful compile result or the wallet is not
\* signed in, no step starts a deploy cycle (no download is requested and
\* deploying does not become true), and a click on Deploy is refused with
\* deploying, deployResult and the outstanding requests unchanged.
C14_ViolatedPreconditionIsLocal ==
    [][~(/\ compileResult # Null
         /\ compileResult[1].success
         /\ wallet.isSignedIn) =>
          (/\ Len(deployCalls') <= Len(deployCalls)
           /\ ~(~deploying /\ deploying')
           /\ deployContract =>
                 (/\ lastOp'.outcome \in {"disabled", "alert_compile", "alert_wallet"}
                  /\ UNCHANGED <<deploying, deployResult, deployCalls>>))]_vars

\* Deploy was clicked and refused before the wallet connection was set up:
\* a successful compile result is shown and the wallet is not signed in
C14_Witness ==
    /\ lastOp = Op("deployContract", "disabled")
    /\ nearInit = "pending"
    /\ ~wallet.isSignedIn
    /\ compileResult # Null
    /\ compileResult[1].success
    /\ ~deploying
    /\ deployResult = Null
    /\ deployCalls = <<>>

\* a deploy cycle is either waiting for its download, with no binary yet, or
\* waiting for the wallet, which was given the binary its download returned
C15_InOrder(call) ==
    \/ /\ call.step = "download"
       /\ call.wasmResponse = ""
       /\ call.wasmCode = ""
    \/ /\ call.step = "deploy"
       /\ call.wasmResponse \in WasmBinaries
       /\ call.wasmCode = call.wasmResponse

\* C15: a deploy cycle starts with its download and with no binary; the
\* wallet is called only by the step in which the reply to that download
\* arrives, with the binary of that reply; a cycle never goes back to its
\* download, and a cycle whose download failed is over.
C15_DownloadThenSignWithThatBinary ==
    [][/\ \A i \in DOMAIN deployCalls' : C15_InOrder(deployCalls'[i])
       /\ Len(deployCalls') > Len(deployCalls) =>
             (/\ Len(deployCalls') = Len(deployCalls) + 1
              /\ deployCalls'[Len(deployCalls')].step = "download")
       /\ (/\ Len(deployCalls') = Len(deployCalls)
           /\ deployCalls' # deployCalls) =>
             \A i \in DOMAIN deployCalls :
                deployCalls'[i] # deployCalls[i] =>
                   (/\ deployCalls[i].step = "download"
                    /\ deployCalls'[i].step = "deploy"
                    /\ deployCalls'[i].contractName = deployCalls[i].contractName
                    /\ deployCalls'[i].accountId = deployCalls[i].accountId)]_vars

\* the download of the running cycle returned the second binary and the
\* wallet was called with it
C15_Witness ==
    /\ deploying
    /\ Len(deployCalls) = 1
    /\ deployCalls[1].step = "deploy"
    /\ deployCalls[1].wasmResponse = "wasm-b"
    /\ deployCalls[1].wasmCode = "wasm-b"
    /\ deployResult = Null

\* C16: once the request for the templates has failed, templates is empty
\* and the editor is shown, the request is not sent again while the page
\* stays loaded; a click on Compile with non-blank code and contract name
\* can start a cycle, and the reply to a started cycle can be taken, which
\* ends the cycle with a compileResult.
C16_FailedTemplateFetchLeavesEditorUsable ==
    /\ [](templatesFetch = "failed" =>
            (/\ templates = <<>>
             /\ ~loading
             /\ (/\ ~compiling
                 /\ ~C5_Blank(code)
                 /\ ~C5_Blank(contractName)
                 /\ cycle < MaxCycles) =>
                   ENABLED (compileContract /\ compiling' /\ compileRequests' # <<>>)
             /\ compiling =>
                   ENABLED (compileContractSettle /\ ~compiling' /\ compileResult' # Null)))
    /\ [][(templatesFetch = "failed" /\ ~loading') => templatesFetch' = "failed"]_vars

\* the request for the templates failed, code was typed into the editor,
\* and a compile cycle for it has ended with a result
C16_Witness ==
    /\ templatesFetch = "failed"
    /\ templates = <<>>
    /\ ~loading
    /\ code = <<"f", "n">>
    /\ ~compiling
    /\ compileResult # Null
    /\ resultOf # Null
    /\ resultOf[1].code = <<"f", "n">>

\* C17: once the set-up of the wallet connection has failed, it stays
\* failed while the page is loaded: the wallet is signed out, there is no
\* connection and no sign-in under way, no deploy cycle runs, and a click
\* on Deploy is refused with nothing of a deploy changed; a click on
\* Compile with non-blank input can start a cycle, and the reply to a
\* started cycle can be taken, which ends the cycle with a compileResult.
C17_FailedWalletSetupKeepsSignedOut ==
    /\ [](nearInit = "failed" =>
            (/\ wallet = SignedOut
             /\ nearConnection = Null
             /\ ~signInRequested
             /\ deployCalls = <<>>
             /\ ~deploying
             /\ (/\ ~loading
                 /\ ~compiling
                 /\ ~C5_Blank(code)
                 /\ ~C5_Blank(contractName)
                 /\ cycle < MaxCycles) =>
                   ENABLED (compileContract /\ compiling' /\ compileRequests' # <<>>)
             /\ compiling =>
                   ENABLED (compileContractSettle /\ ~compiling' /\ compileResult' # Null)))
    /\ [][nearInit = "failed" =>
             (/\ nearInit' = "failed"
              /\ wallet' = SignedOut
              /\ deployContract =>
                    (/\ lastOp'.outcome \in {"disabled", "alert_wallet"}
                     /\ UNCHANGED <<deployCalls, deploying, deployResult>>))]_vars

\* the set-up of the wallet connection failed, a compile cycle ended with a
\* successful result, and a click on Deploy was refused
C17_Witness ==
    /\ nearInit = "failed"
    /\ nearConnection = Null
    /\ wallet = SignedOut
    /\ cycle >= 1
    /\ compileResult # Null
    /\ compileResult[1].success
    /\ lastOp = Op("deployContract", "disabled")
    /\ deployCalls = <<>>
    /\ deployResult = Null

\* C18: a click on Connect Wallet leaves wallet, compileResult,
\* deployResult, compiling and deploying as they were, and asks for no
\* sign-in when there is no wallet connection; wallet.isSignedIn turns true
\* only in the step that ends the set-up of the wallet connection.
C18_ConnectChangesNothingOnThePage ==
    [][/\ connectWallet =>
             (/\ UNCHANGED <<wallet, compileResult, deployResult, compiling, deploying>>
              /\ nearConnection = Null => UNCHANGED signInRequested)
       /\ (~wallet.isSignedIn /\ wallet'.isSignedIn) =>
             (/\ nearInit = "pending"
              /\ nearInit' = "done"
              /\ wallet'.accountId = providerAccount
              /\ providerAccount # "")]_vars

\* Connect Wallet was clicked without a wallet connection: nothing was asked
\* of the wallet provider
C18_Witness ==
    /\ lastOp = Op("connectWallet", "no_connection")
    /\ nearConnection = Null
    /\ ~signInRequested
    /\ wallet = SignedOut

\* C19: whenever a deployResult is present the wallet is signed in.
C19_DeployResultOnlyWhileSignedIn ==
    deployResult # Null => wallet.isSignedIn

\* C20: whenever a deployResult is present there is a compileResult with
\* success true.
C20_DeployResultOnlyWithSuccessfulCompile ==
    deployResult # Null => (compileResult # Null /\ compileResult[1].success)

\* C21: while a compile request is outstanding compileResult is empty and
\* compiling is true, so the Deploy button is not on the page; no step
\* starts a deploy cycle, and a deploy invocation would change nothing.
C21_NoDeployStartWhileCompilePending ==
    /\ [](compileRequests # <<>> =>
            (/\ compileResult = Null
             /\ compiling
             /\ ~ENABLED (deployContract /\ Len(deployCalls') > Len(deployCalls))))
    /\ [][compileRequests # <<>> =>
             (/\ Len(deployCalls') <= Len(deployCalls)
              /\ ~(~deploying /\ deploying')
              /\ deployContract =>
                    (/\ lastOp'.outcome = "alert_compile"
                     /\ UNCHANGED <<deployCalls, deploying, deployResult>>))]_vars

\* the second compile of the page was requested with the wallet signed in
\* and no deploy running: the result of the first one is gone and the
\* request is outstanding
C21_Witness ==
    /\ cycle = 2
    /\ Len(compileRequests) = 1
    /\ compileRequests[1].cycle = 2
    /\ compiling
    /\ compileResult = Null
    /\ wallet.isSignedIn
    /\ nearConnection # Null
    /\ ~deploying
    /\ deployCalls = <<>>
    /\ lastOp = Op("compileContract", "requested")

====
